---- MODULE Spec2Model ----
(***************************************************************************)
(* Hardened request pipeline of users-service/secure_main.py:              *)
(* rate limiter, threat scanner, response cache, CRUD handlers and the     *)
(* metrics wrapper, as a state machine over concurrent request workers.    *)
(* Strings are sequences of one-character strings.                         *)
(***************************************************************************)
EXTENDS Integers, Sequences, FiniteSets, TLC

\* Python's None where a string is expected, and where an integer is expected
None == <<"None">>
NoId == -100

(* ------------------------------ text ---------------------------------- *)

UpperCase == <<"A","B","C","D","E","F","G","H","I","J","K","L","M",
               "N","O","P","Q","R","S","T","U","V","W","X","Y","Z">>
LowerCase == <<"a","b","c","d","e","f","g","h","i","j","k","l","m",
               "n","o","p","q","r","s","t","u","v","w","x","y","z">>
Digits == {"0","1","2","3","4","5","6","7","8","9"}
Letters == {UpperCase[i] : i \in 1..26} \cup {LowerCase[i] : i \in 1..26}
Whitespace == {" ", "\n", "\t"}

\* str.lower() on one character
LowerChar(c) ==
    IF \E i \in 1..26 : UpperCase[i] = c
    THEN LowerCase[CHOOSE i \in 1..26 : UpperCase[i] = c]
    ELSE c

\* a lower() that leaves the text as it is
LowerKeepsCase(s) == s

\* str.lower()
Lower(s) == [i \in 1..Len(s) |-> LowerChar(s[i])]

\* str.strip(): drop leading and trailing whitespace
RECURSIVE LStrip(_)
LStrip(s) == IF s # <<>> /\ Head(s) \in Whitespace THEN LStrip(Tail(s)) ELSE s
RECURSIVE RStrip(_)
RStrip(s) ==
    IF s # <<>> /\ s[Len(s)] \in Whitespace
    THEN RStrip(SubSeq(s, 1, Len(s) - 1)) ELSE s
Strip(s) == LStrip(RStrip(s))

\* `pattern in text`
Contains(text, pattern) ==
    \E i \in 1..(Len(text) - Len(pattern) + 1) :
        SubSeq(text, i, i + Len(pattern) - 1) = pattern

\* str.replace(char, '') for a one-character needle
RECURSIVE RemoveChar(_, _)
RemoveChar(s, c) ==
    IF s = <<>> THEN <<>>
    ELSE IF Head(s) = c THEN RemoveChar(Tail(s), c)
    ELSE <<Head(s)>> \o RemoveChar(Tail(s), c)

\* str.replace('--', ''): non-overlapping occurrences, left to right
RECURSIVE RemoveDashes(_)
RemoveDashes(s) ==
    IF Len(s) < 2 THEN s
    ELSE IF s[1] = "-" /\ s[2] = "-" THEN RemoveDashes(SubSeq(s, 3, Len(s)))
    ELSE <<Head(s)>> \o RemoveDashes(Tail(s))

\* sanitize_input: delete < > " ' ; and then --
sanitize_input(data) ==
    RemoveDashes(RemoveChar(RemoveChar(RemoveChar(RemoveChar(RemoveChar(
        data, "<"), ">"), "\""), "'"), ";"))

AllIn(s, lo, hi, class) == \A k \in lo..hi : s[k] \in class

\* validate_name: 2..100 characters out of letters, whitespace, ' and -
\* (the range of accented letters holds no character of the inputs used)
NameChars == Letters \cup Whitespace \cup {"'", "-"}
validate_name(name) ==
    /\ name # None
    /\ name # <<>>
    /\ Len(name) >= 2
    /\ Len(name) <= 100
    /\ AllIn(name, 1, Len(name), NameChars)

\* validate_email: ^[a-zA-Z0-9._%+-]+@[a-zA-Z0-9.-]+\.[a-zA-Z]{2,}$
\* ($ also matches just before one trailing newline)
LocalChars == Letters \cup Digits \cup {".", "_", "%", "+", "-"}
DomainChars == Letters \cup Digits \cup {".", "-"}
EmailMatchesUpTo(email, n) ==
    \E i \in 2..n : \E j \in (i + 2)..n :
        /\ email[i] = "@"
        /\ email[j] = "."
        /\ AllIn(email, 1, i - 1, LocalChars)
        /\ AllIn(email, i + 1, j - 1, DomainChars)
        /\ n - j >= 2
        /\ AllIn(email, j + 1, n, Letters)
validate_email(email) ==
    \/ EmailMatchesUpTo(email, Len(email))
    \/ /\ Len(email) > 0
       /\ email[Len(email)] = "\n"
       /\ EmailMatchesUpTo(email, Len(email) - 1)


(* ----------------------------- requests ------------------------------- *)

Clients == {"10.0.0.1", "10.0.0.2"}
Workers == {"w1", "w2"}

\* field values sent by clients
NameAl == <<"A","l">>
NameBo == <<"B","o">>
NameOB == <<"O","'","B">>
NameX == <<"X">>
EmailA == <<"a","@","b",".","c","o">>
EmailAUpper == <<"A","@","b",".","c","o">>
EmailC == <<"c","@","d",".","c","o">>
EmailBad == <<"b","a","d">>

\* request.get_json(): a JSON object with optional name and email
Body(n, e) == [json |-> TRUE, name |-> n, email |-> e]
EmptyBody == Body(None, None)
NoBody == [json |-> FALSE, name |-> None, email |-> None]
Bodies ==
    { EmptyBody,
      Body(NameAl, None),
      Body(None, EmailC),
      Body(NameAl, EmailA),
      Body(NameOB, EmailAUpper),
      Body(NameBo, EmailC),
      Body(NameX, EmailA),
      Body(NameAl, EmailBad) }

\* identifiers clients put in /users/<id>
MaxId == 2
PathIds == -1..MaxId

Req(m, res, i, b, c) == [method |-> m, res |-> res, id |-> i, body |-> b, client |-> c]
Requests ==
    {Req("GET", "metrics", NoId, NoBody, c) : c \in Clients}
    \cup {Req("GET", "health", NoId, NoBody, c) : c \in Clients}
    \cup {Req("GET", "users", NoId, NoBody, c) : c \in Clients}
    \cup {Req("GET", "users", i, NoBody, c) : i \in PathIds, c \in Clients}
    \cup {Req("POST", "users", NoId, b, c) : b \in Bodies, c \in Clients}
    \cup {Req("PUT", "users", i, b, c) : i \in 1..MaxId, b \in Bodies, c \in Clients}
    \cup {Req("PUT", "users", i, EmptyBody, c) : i \in -1..0, c \in Clients}
    \cup {Req("DELETE", "users", i, NoBody, c) : i \in PathIds, c \in Clients}

\* the <int:id> converter of the URL rules: digits only, no sign
IntConverterMatches(i) == i >= 0

\* request.endpoint when no URL rule matches
NoEndpoint == "none"

\* URL map built by the @app.route decorators: the endpoint of a request,
\* NoEndpoint when no rule matches
Endpoint(r) ==
    IF r.res = "metrics" THEN "metrics"
    ELSE IF r.res = "health" THEN "health"
    ELSE IF r.id = NoId THEN
        (IF r.method = "GET" THEN "get_users"
         ELSE IF r.method = "POST" THEN "create_user" ELSE NoEndpoint)
    ELSE IF ~IntConverterMatches(r.id) THEN NoEndpoint
    ELSE IF r.method = "GET" THEN "get_user"
    ELSE IF r.method = "PUT" THEN "update_user"
    ELSE IF r.method = "DELETE" THEN "delete_user" ELSE NoEndpoint

Endpoints == {"metrics", "health", "get_users", "get_user",
              "create_user", "update_user", "delete_user"}

\* views wrapped by @track_metrics
Tracked == Endpoints \ {"metrics"}

(* --------------------------- threat scanner --------------------------- *)

\* the JSON text a client sends for a body
JsonField(k, v) == <<"\"">> \o k \o <<"\"",":"," ","\"">> \o v \o <<"\"">>
JsonText(b) ==
    IF ~b.json THEN <<>>
    ELSE <<"{">>
         \o (IF b.name # None THEN JsonField(<<"n","a","m","e">>, b.name) ELSE <<>>)
         \o (IF b.name # None /\ b.email # None THEN <<",", " ">> ELSE <<>>)
         \o (IF b.email # None THEN JsonField(<<"e","m","a","i","l">>, b.email) ELSE <<>>)
         \o <<"}">>

\* str(bytes): b'...' with ' escaped, or b"..." when the bytes hold ' and no "
RECURSIVE EscapeQuote(_)
EscapeQuote(s) ==
    IF s = <<>> THEN <<>>
    ELSE (IF Head(s) = "'" THEN <<"\\", "'">> ELSE <<Head(s)>>) \o EscapeQuote(Tail(s))
BytesRepr(data) ==
    IF Contains(data, <<"'">>) /\ ~Contains(data, <<"\"">>)
    THEN <<"b", "\"">> \o data \o <<"\"">>
    ELSE <<"b", "'">> \o EscapeQuote(data) \o <<"'">>

\* str() of an empty request.args / request.form
EmptyMultiDict == <<"I","m","m","u","t","a","b","l","e","M","u","l","t","i","D","i","c","t","(","[","]",")">>

\* a response; status 0 stands for "no response" (a hook returning None)
Resp(st, kind, data, source, error) ==
    [status |-> st, kind |-> kind, data |-> data, source |-> source, error |-> error]
NoResp == Resp(0, "none", <<>>, "", "")

suspicious_patterns ==
    << <<"'">>,
       <<"\"">>,
       <<"-","-">>,
       <<";">>,
       <<"D","R","O","P">>,
       <<"D","E","L","E","T","E"," ","F","R","O","M">>,
       <<"I","N","S","E","R","T"," ","I","N","T","O">>,
       <<"<","s","c","r","i","p","t">>,
       <<"j","a","v","a","s","c","r","i","p","t",":">>,
       <<"o","n","e","r","r","o","r","=">>,
       <<".",".","/">>,
       <<".",".","\\">>,
       <<"e","t","c","/","p","a","s","s","w","d">> >>

request_data(r) == BytesRepr(JsonText(r.body)) \o EmptyMultiDict \o EmptyMultiDict

\* a scanner that answers 403 itself when a pattern matches
security_logging_blocking(r) ==
    LET n == Cardinality({k \in 1..Len(suspicious_patterns) :
                 Contains(Lower(request_data(r)), Lower(suspicious_patterns[k]))})
    IN [events |-> n,
        rv |-> IF n > 0 THEN Resp(403, "error", <<>>, "", "Forbidden") ELSE NoResp]

\* security_logging: one suspicious_pattern event per matching pattern;
\* the hook returns nothing, so Flask goes on to the view (rv = None)
security_logging(r) ==
    [events |-> Cardinality({k \in 1..Len(suspicious_patterns) :
                    Contains(Lower(request_data(r)), Lower(suspicious_patterns[k]))}),
     rv |-> NoResp]

ScanTable == [r \in Requests |-> security_logging(r)]
security_logging_of(r) == ScanTable[r]


(* ------------------------------ limiter ------------------------------- *)

Minute == 60
Hour == 3600

\* Limiter(default_limits=[...]): 60 per minute, 1000 per hour
DefaultLimits == << [amount |-> 60, per |-> Minute], [amount |-> 1000, per |-> Hour] >>

\* @limiter.limit("N per minute") on the views
RouteLimits ==
    [get_users |-> 30, get_user |-> 60, create_user |-> 10,
     update_user |-> 20, delete_user |-> 10]

\* @limiter.exempt
Exempt == {"health"}

\* the limits the limiter checks for an endpoint: none for an exempt view, the
\* decorator's limit where there is one (it replaces the defaults), else the
\* defaults
LimitsFor(e) ==
    IF e = NoEndpoint \/ e \in Exempt THEN <<>>
    ELSE IF e \in DOMAIN RouteLimits THEN << [amount |-> RouteLimits[e], per |-> Minute] >>
    ELSE DefaultLimits

WinKeys == Clients \X Endpoints \X {Minute, Hour}
NoWindow == [count |-> 0, exp |-> 0]

\* fixed-window hit: the counter key is created with an expiry of one
\* duration at the first hit and incremented until it expires
Hit(win, key, per, t) ==
    IF win[key].exp > t
    THEN [win EXCEPT ![key].count = @ + 1]
    ELSE [win EXCEPT ![key] = [count |-> 1, exp |-> t + per]]

\* one check of the limiter: hit the limits in order, stop at the first one
\* that is exceeded
RECURSIVE CheckLimits(_, _, _, _, _)
CheckLimits(win, lims, c, e, t) ==
    IF lims = <<>> THEN [win |-> win, ok |-> TRUE]
    ELSE LET key == <<c, e, Head(lims).per>>
             w2 == Hit(win, key, Head(lims).per, t)
         IN IF w2[key].count > Head(lims).amount
            THEN [win |-> w2, ok |-> FALSE]
            ELSE CheckLimits(w2, Tail(lims), c, e, t)

(* --------------------------- entity store ----------------------------- *)

RECURSIVE IntToStr(_)
IntToStr(n) ==
    LET d == <<"0","1","2","3","4","5","6","7","8","9">>
    IN IF n < 10 THEN <<d[n + 1]>> ELSE IntToStr(n \div 10) \o <<d[(n % 10) + 1]>>

RECURSIVE StrToInt(_)
StrToInt(s) ==
    LET d == <<"0","1","2","3","4","5","6","7","8","9">>
        v(c) == (CHOOSE k \in 1..10 : d[k] = c) - 1
    IN IF s = <<>> THEN 0
       ELSE 10 * StrToInt(SubSeq(s, 1, Len(s) - 1)) + v(s[Len(s)])

\* datetime.isoformat()
isoformat(t) == <<"T">> \o IntToStr(t)

\* User.to_dict
to_dict(u) ==
    [id |-> u.id, name |-> u.name, email |-> u.email,
     created_at |-> isoformat(u.created_at)]

\* User.query.all(), rows in identifier order
RECURSIVE QueryAll(_)
QueryAll(rows) ==
    IF rows = {} THEN <<>>
    ELSE LET u == CHOOSE x \in rows : \A y \in rows : x.id <= y.id
         IN <<u>> \o QueryAll(rows \ {u})

users_data_of(rows) == [k \in 1..Len(QueryAll(rows)) |-> to_dict(QueryAll(rows)[k])]

\* json.dumps of the list of user dicts, as a token sequence
RECURSIVE dumps_items(_)
dumps_items(ds) ==
    IF ds = <<>> THEN <<>>
    ELSE << <<"{">>, IntToStr(Head(ds).id), Head(ds).name, Head(ds).email,
            Head(ds).created_at, <<"}">> >> \o dumps_items(Tail(ds))
dumps(ds) == << <<"[">> >> \o dumps_items(ds) \o << <<"]">> >>

\* json.loads of such a text
RECURSIVE loads_items(_)
loads_items(toks) ==
    IF Len(toks) < 6 THEN <<>>
    ELSE << [id |-> StrToInt(toks[2]), name |-> toks[3], email |-> toks[4],
             created_at |-> toks[5]] >> \o loads_items(SubSeq(toks, 7, Len(toks)))
loads(text) == loads_items(SubSeq(text, 2, Len(text) - 1))

\* redis_client.get(key) at time t: the live entry, or nothing
RedisGet(c, t) == [found |-> c.live /\ c.exp > t, value |-> c.value]

\* `if cached_data:` -- a missing key (None) and the empty string are falsy
Truthy(g) == g.found /\ Len(g.value) > 0

\* redis_client.setex(cache_key, 60, ...)
CacheTTL == 60


(* ------------------------------- state -------------------------------- *)

VARIABLES
    now,      \* wall clock, seconds
    config,   \* redis_client: the client object exists (is not None)
    store,    \* rows of the users table
    nextId,   \* the next value of the users.id sequence
    cache,    \* the 'users:all' key of the cache store
    win,      \* the limiter's counter keys
    pc,       \* per worker: where its request stands
    req,      \* per worker: the request it serves
    loc,      \* per worker: the handler's local variables
    resp,     \* per worker: the response
    obs,      \* per worker: what this request did and met (metrics, events,
              \* calls, and what the properties need to know about its run)
    hist,     \* history of the run the properties refer to
    focus,    \* the (endpoint, client) a load run is restricted to
    nreq,     \* requests started in a run (list-reads apart)
    nread,    \* list-reads started in a run
    boot      \* the __main__ block: where it stands, and the database as it
              \* meets it

vars == <<now, config, store, nextId, cache, win, pc, req, loc, resp, obs,
          hist, focus, nreq, nread, boot>>

\* requests started in a run of the handlers
MaxRequests == 2
\* list-reads and writes started in a run of the cache
MaxReads == 3
MaxWrites == 1
\* cache-store calls that fail in a run
MaxFaults == 1
\* requests beyond an exhausted limit that a load run sends in one window
MaxOver == 2
\* the clock stops here
MaxTime == 60
\* clock steps
TickSteps == {30, 60}

NoReq == Req("", "", NoId, NoBody, "")
NoLoc == [id |-> NoId, name |-> None, email |-> None, data |-> <<>>,
          old_name |-> None, old_email |-> None, ver |-> 0]
NoEvents == [suspicious_pattern |-> 0, invalid_input |-> 0,
             invalid_email |-> 0, rate_limit_exceeded |-> 0]
NoLast == [valid |-> FALSE, data |-> <<>>, exp |-> 0]
NoEntry == [live |-> FALSE, value |-> <<>>, exp |-> 0, at |-> 0, ver |-> 0]
NoObs == [events |-> NoEvents, counted |-> <<>>, errors |-> <<>>,
          hits |-> 0, misses |-> 0, dbCalls |-> 0, cacheCalls |-> 0,
          stage |-> "none", nth |-> 0,
          alone |-> FALSE, pre |-> {}, preCache |-> NoEntry,
          prior |-> NoLast, clean |-> FALSE, lookupAt |-> 0, storedAt |-> 0,
          afterWrite |-> FALSE, need |-> 0, got |-> 0, wrote |-> 0,
          purged |-> FALSE, faulted |-> FALSE]
NoFocus == [endpoint |-> "any", client |-> "any"]

\* wait_for_db: max_retries
max_retries == 30

\* __main__ has reached app.run: the database was reachable, the tables exist
Serving == [phase |-> "run", up |-> TRUE, retry_count |-> 0, attempts |-> 1,
            result |-> "True", tables |-> TRUE]

\* a row the users table may hold when the service starts
Seed == [id |-> 1, name |-> NameAl, email |-> EmailA, created_at |-> 0]

\* the service has started: the table is empty or holds one row, the cache
\* store and the limiter's store hold nothing, every worker is idle
Idle ==
    /\ now = 0
    /\ config \in [redis_client : BOOLEAN]
    /\ store \in {{}, {Seed}}
    /\ nextId = IF store = {} THEN 1 ELSE 2
    /\ cache = NoEntry
    /\ win = [k \in WinKeys |-> NoWindow]
    /\ pc = [w \in Workers |-> "idle"]
    /\ req = [w \in Workers |-> NoReq]
    /\ loc = [w \in Workers |-> NoLoc]
    /\ resp = [w \in Workers |-> NoResp]
    /\ obs = [w \in Workers |-> NoObs]
    /\ hist = [last |-> NoLast, ver |-> 0, ack |-> 0, quiet |-> FALSE,
               faults |-> 0]
    /\ nreq = 0
    /\ nread = 0

Started == Idle /\ boot = Serving

Init == Started /\ focus = NoFocus

\* a load run: one client sends requests to one endpoint only, one after the
\* other
InitRate == Started /\ store # {} /\ focus \in [endpoint : Endpoints, client : Clients]

\* the requests a load run may start in the current state
MayLoad(r) ==
    /\ Endpoint(r) = focus.endpoint
    /\ r.client = focus.client
    /\ r.id \in {NoId, 1}
    /\ r.body \in {NoBody, Body(NameBo, EmailC), Body(None, EmailC)}
    /\ \A v \in Workers : pc[v] = "idle"
    /\ \A k \in 1..Len(LimitsFor(focus.endpoint)) :
         LET lim == LimitsFor(focus.endpoint)[k]
             cur == win[<<r.client, focus.endpoint, lim.per>>]
         IN cur.exp > now => cur.count < lim.amount + MaxOver

\* an hour-long load run: one client reads one user at the full rate its
\* per-minute limit admits
InitHour ==
    /\ Started
    /\ store # {}
    /\ focus \in [endpoint : {"get_user"}, client : Clients]

\* the requests of the runs that are not load runs come from one address
CrudRequests == {r \in Requests : r.client = "10.0.0.1"
                    /\ Endpoint(r) \notin {"get_users", "health", "metrics"}}
ListRead == Req("GET", "users", NoId, NoBody, "10.0.0.1")
WriteRequests ==
    { Req("POST", "users", NoId, Body(NameBo, EmailC), "10.0.0.1"),
      Req("PUT", "users", 1, Body(None, EmailC), "10.0.0.1"),
      Req("DELETE", "users", 1, NoBody, "10.0.0.1") }

\* the decorated_function of track_metrics around a view: count the request
\* under the status of the view's return value
Counted(o, e, st) ==
    IF e \in Tracked
    THEN [o EXCEPT !.counted = Append(@, st),
                   !.errors = IF st >= 400 THEN Append(@, st) ELSE @]
    ELSE o

\* what a step of worker w leaves in obs: o for w itself; a step that
\* disturbs (a write's step, a cache fault) is noted for the others
ObsAfter(w, o, disturbs) ==
    [v \in Workers |-> IF v = w THEN o
                       ELSE IF disturbs THEN [obs[v] EXCEPT !.clean = FALSE]
                       ELSE obs[v]]
HistAfter(h, disturbs) == IF disturbs THEN [h EXCEPT !.last = NoLast] ELSE h
\* a call of the cache store raised
Faulted(h, fault) == IF fault THEN [h EXCEPT !.faults = @ + 1] ELSE h

\* a finished response is written to the socket before the server does
\* anything else
Flushed == \A v \in Workers : pc[v] # "done"

\* a view goes on to its next step
Step(w, p, o, h, disturbs) ==
    /\ pc' = [pc EXCEPT ![w] = p]
    /\ obs' = ObsAfter(w, o, disturbs)
    /\ hist' = HistAfter(h, disturbs)
    /\ UNCHANGED resp

\* a view returns: the response is ready and the metrics are recorded
Finish(w, r, o, h, disturbs) ==
    /\ resp' = [resp EXCEPT ![w] = r]
    /\ obs' = ObsAfter(w, Counted(o, Endpoint(req[w]), r.status), disturbs)
    /\ hist' = HistAfter(h, disturbs)
    /\ pc' = [pc EXCEPT ![w] = "done"]

\* an exception leaves the view: the `except Exception` of track_metrics
\* counts it as 500 and answers 500
Raised(w, e, o, h, disturbs) ==
    \E production \in BOOLEAN :   \* os.getenv('ENVIRONMENT') == 'production'
        Finish(w, Resp(500, "error", <<>>, "",
                       IF production THEN "Internal server error" ELSE e),
               o, h, disturbs)

\* One request up to the body of its view:
\*  - the before_request hooks in registration order: the limiter's (it checks
\*    the default limits of a view that has no limit decorator and is not
\*    exempt; RateLimitExceeded goes to ratelimit_handler), then
\*    security_logging;
\*  - URL dispatch (NotFound goes to not_found);
\*  - the call of the view: decorated_function of track_metrics, and inside it
\*    the wrapper of limiter.limit, which checks the view's own limit when it
\*    is called; its RateLimitExceeded is an Exception raised inside the try
\*    block of track_metrics.
Begin(w, r) ==
    /\ pc[w] = "idle"
    /\ Flushed
    /\ w = "w2" => pc["w1"] # "idle"   \* the first idle worker takes it
    /\ LET e == Endpoint(r)
           decorated == e \in DOMAIN RouteLimits
           chk == CheckLimits(win, LimitsFor(e), r.client, e, now)
           nth == IF decorated THEN chk.win[<<r.client, e, Minute>>].count ELSE 0
           scan == security_logging_of(r)
           o0 == [NoObs EXCEPT
                    !.alone = \A v \in Workers \ {w} : pc[v] = "idle",
                    !.pre = store, !.preCache = cache,
                    !.prior = hist.last, !.clean = TRUE,
                    !.afterWrite = hist.quiet, !.need = hist.ack]
           o1 == [o0 EXCEPT !.events.suspicious_pattern = scan.events]
           others == [v \in Workers |-> [obs[v] EXCEPT !.alone = FALSE]]
           h0 == [hist EXCEPT !.quiet = FALSE]
       IN /\ req' = [req EXCEPT ![w] = r]
          /\ loc' = [loc EXCEPT ![w] = NoLoc]
          /\ IF ~decorated /\ ~chk.ok
             THEN /\ win' = chk.win
                  /\ hist' = h0
                  /\ resp' = [resp EXCEPT ![w] =
                        Resp(429, "error", <<>>, "", "Rate limit exceeded. Please try again later.")]
                  /\ obs' = [others EXCEPT ![w] =
                        [o0 EXCEPT !.events.rate_limit_exceeded = 1, !.stage = "limiter"]]
                  /\ pc' = [pc EXCEPT ![w] = "done"]
             ELSE IF scan.rv # NoResp
             THEN /\ win' = IF decorated THEN win ELSE chk.win
                  /\ hist' = h0
                  /\ resp' = [resp EXCEPT ![w] = scan.rv]
                  /\ obs' = [others EXCEPT ![w] = [o1 EXCEPT !.stage = "before"]]
                  /\ pc' = [pc EXCEPT ![w] = "done"]
             ELSE IF e = NoEndpoint
             THEN /\ win' = win
                  /\ hist' = h0
                  /\ resp' = [resp EXCEPT ![w] =
                        Resp(404, "error", <<>>, "", "Resource not found")]
                  /\ obs' = [others EXCEPT ![w] = [o1 EXCEPT !.stage = "router"]]
                  /\ pc' = [pc EXCEPT ![w] = "done"]
             ELSE IF decorated /\ ~chk.ok
             THEN /\ win' = chk.win
                  /\ hist' = h0
                  /\ \E production \in BOOLEAN :
                        resp' = [resp EXCEPT ![w] = Resp(500, "error", <<>>, "",
                            IF production THEN "Internal server error"
                            ELSE "429 Too Many Requests")]
                  /\ obs' = [others EXCEPT ![w] =
                        Counted([o1 EXCEPT !.stage = "limiter", !.nth = nth], e, 500)]
                  /\ pc' = [pc EXCEPT ![w] = "done"]
             ELSE /\ win' = chk.win
                  /\ hist' = h0
                  /\ resp' = [resp EXCEPT ![w] = NoResp]
                  /\ obs' = [others EXCEPT ![w] = [o1 EXCEPT !.stage = "view", !.nth = nth]]
                  /\ pc' = [pc EXCEPT ![w] = "view"]
    /\ UNCHANGED <<now, config, store, nextId, cache, focus, boot>>

\* the response leaves the server
Return(w) ==
    /\ pc[w] = "done"
    /\ pc' = [pc EXCEPT ![w] = "idle"]
    /\ req' = [req EXCEPT ![w] = NoReq]
    /\ loc' = [loc EXCEPT ![w] = NoLoc]
    /\ resp' = [resp EXCEPT ![w] = NoResp]
    /\ obs' = [obs EXCEPT ![w] = NoObs]
    /\ hist' = [hist EXCEPT
          !.ack = IF obs[w].wrote > @ /\ obs[w].purged /\ resp[w].status < 300
                  THEN obs[w].wrote ELSE @,
          !.quiet = \/ @
                    \/ /\ obs[w].wrote > 0
                       /\ resp[w].status < 300
                       /\ \A v \in Workers \ {w} : pc[v] = "idle"]
    /\ UNCHANGED <<now, config, store, nextId, cache, win, focus, nreq, nread, boot>>

\* a setex whose time argument is taken as minutes
setex_minutes(ttl, value, t, ver) ==
    [live |-> TRUE, value |-> value, exp |-> t + ttl * Minute, at |-> t, ver |-> ver]

\* redis_client.setex('users:all', ttl, value) at time t: the entry expires
\* ttl seconds after it is stored
setex(ttl, value, t, ver) ==
    [live |-> TRUE, value |-> value, exp |-> t + ttl, at |-> t, ver |-> ver]

\* time passes; expired keys of the cache store and of the limiter vanish
Tick(d) ==
    /\ now + d <= MaxTime
    /\ Flushed
    /\ now' = now + d
    /\ cache' = IF cache.live /\ cache.exp <= now + d THEN NoEntry ELSE cache
    /\ win' = [k \in WinKeys |-> IF win[k].exp <= now + d THEN NoWindow ELSE win[k]]
    /\ hist' = [hist EXCEPT
          !.last = IF @.valid /\ @.exp <= now + d THEN NoLast ELSE @]
    /\ UNCHANGED <<config, store, nextId, pc, req, loc, resp, obs, focus, nreq, nread, boot>>

(* ------------------------------- views -------------------------------- *)

At(w, e, p) == pc[w] = p /\ Endpoint(req[w]) = e /\ Flushed

BadRequest(msg) == Resp(400, "error", <<>>, "", msg)
ServerError(msg) == Resp(500, "error", <<>>, "", msg)

\* `not data` for the parsed JSON object
Falsy(b) == ~b.json \/ (b.name = None /\ b.email = None)

health(w) ==
    /\ At(w, "health", "view")
    /\ Finish(w, Resp(200, "health", <<>>, "", ""), obs[w], hist, FALSE)
    /\ UNCHANGED <<now, config, store, nextId, cache, win, req, loc, focus, nreq, nread, boot>>

\* update_user_count() and the exposition text
metrics(w) ==
    /\ At(w, "metrics", "view")
    /\ Finish(w, Resp(200, "metrics", <<>>, "", ""),
              [obs[w] EXCEPT !.dbCalls = @ + 1], hist, FALSE)
    /\ UNCHANGED <<now, config, store, nextId, cache, win, req, loc, focus, nreq, nread, boot>>

\* a miss that is not counted
CACHE_MISSES_skipped(o) == o

\* CACHE_MISSES.labels(endpoint='get_users').inc()
CACHE_MISSES_inc(o) == [o EXCEPT !.misses = @ + 1]

\* get_users, cache lookup: a hit answers from the cache
get_users_lookup(w) ==
    /\ At(w, "get_users", "view")
    /\ \E fault \in BOOLEAN :
         LET called == config.redis_client
             g == RedisGet(cache, now)
             o == [obs[w] EXCEPT !.cacheCalls = IF called THEN @ + 1 ELSE @,
                                 !.lookupAt = now,
                                 !.clean = @ /\ called /\ ~fault,
                                 !.faulted = @ \/ fault]
         IN /\ fault => called /\ hist.faults < MaxFaults
            /\ IF called /\ ~fault /\ Truthy(g)
               THEN Finish(w, Resp(200, "list", loads(g.value), "cache", ""),
                           [o EXCEPT !.hits = @ + 1, !.got = cache.ver,
                                     !.storedAt = cache.at],
                           IF o.clean
                           THEN [hist EXCEPT !.last = [valid |-> TRUE,
                                    data |-> loads(g.value), exp |-> cache.exp]]
                           ELSE hist,
                           FALSE)
               ELSE Step(w, "query", CACHE_MISSES_inc(o),
                         Faulted(hist, fault), fault)
    /\ UNCHANGED <<now, config, store, nextId, cache, win, req, loc, focus, nreq, nread, boot>>

\* get_users, User.query.all()
get_users_query(w) ==
    /\ At(w, "get_users", "query")
    /\ loc' = [loc EXCEPT ![w].data = users_data_of(store), ![w].ver = hist.ver]
    /\ Step(w, "fill", [obs[w] EXCEPT !.dbCalls = @ + 1], hist, FALSE)
    /\ UNCHANGED <<now, config, store, nextId, cache, win, req, focus, nreq, nread, boot>>

\* get_users, setex of the snapshot, update_user_count and the answer
get_users_fill(w) ==
    /\ At(w, "get_users", "fill")
    /\ \E fault \in BOOLEAN :
         LET called == config.redis_client
             o == [obs[w] EXCEPT !.cacheCalls = IF called THEN @ + 1 ELSE @,
                                 !.dbCalls = @ + 1,
                                 !.got = loc[w].ver,
                                 !.clean = @ /\ called /\ ~fault,
                                 !.faulted = @ \/ fault]
         IN /\ fault => called /\ hist.faults < MaxFaults
            /\ cache' = IF called /\ ~fault
                        THEN setex(CacheTTL, dumps(loc[w].data), now, loc[w].ver)
                        ELSE cache
            /\ Finish(w, Resp(200, "list", loc[w].data, "database", ""), o,
                      IF o.clean
                      THEN [hist EXCEPT !.last = [valid |-> TRUE,
                               data |-> loc[w].data, exp |-> now + CacheTTL]]
                      ELSE Faulted(hist, fault),
                      fault)
    /\ UNCHANGED <<now, config, store, nextId, win, req, loc, focus, nreq, nread, boot>>

\* get_user; get_or_404 aborts with NotFound inside track_metrics
get_user(w) ==
    /\ At(w, "get_user", "view")
    /\ IF req[w].id <= 0
       THEN Finish(w, BadRequest("Invalid user ID"), obs[w], hist, FALSE)
       ELSE LET o == [obs[w] EXCEPT !.dbCalls = @ + 1]
            IN IF \E u \in store : u.id = req[w].id
               THEN Finish(w, Resp(200, "user",
                        <<to_dict(CHOOSE u \in store : u.id = req[w].id)>>, "", ""),
                        o, hist, FALSE)
               ELSE Raised(w, "404 Not Found", o, hist, FALSE)
    /\ UNCHANGED <<now, config, store, nextId, cache, win, req, loc, focus, nreq, nread, boot>>

\* create_user up to the duplicate check
create_user_validate(w) ==
    /\ At(w, "create_user", "view")
    /\ LET data == req[w].body
           o == obs[w]
       IN IF Falsy(data)
          THEN Finish(w, BadRequest("No data provided"), o, hist, FALSE) /\ UNCHANGED loc
          ELSE IF data.name = None \/ data.email = None
          THEN Finish(w, BadRequest("name and email are required"), o, hist, FALSE)
               /\ UNCHANGED loc
          ELSE IF ~validate_name(data.name)
          THEN Finish(w, BadRequest("Invalid name format. Use 2-100 characters, letters only"),
                      [o EXCEPT !.events.invalid_input = @ + 1], hist, FALSE)
               /\ UNCHANGED loc
          ELSE IF ~validate_email(data.email)
          THEN Finish(w, BadRequest("Invalid email format"),
                      [o EXCEPT !.events.invalid_email = @ + 1], hist, FALSE)
               /\ UNCHANGED loc
          ELSE IF \E u \in store : u.email = data.email
          THEN Finish(w, Resp(409, "error", <<>>, "", "Email already exists"),
                      [o EXCEPT !.dbCalls = @ + 1], hist, FALSE)
               /\ UNCHANGED loc
          ELSE /\ loc' = [loc EXCEPT ![w].name = sanitize_input(data.name),
                                     ![w].email = Strip(Lower(data.email))]
               /\ Step(w, "commit", [o EXCEPT !.dbCalls = @ + 1], hist, FALSE)
    /\ UNCHANGED <<now, config, store, nextId, cache, win, req, focus, nreq, nread, boot>>

\* create_user, db.session.commit(): the unique constraint on email decides
create_user_commit(w) ==
    /\ At(w, "create_user", "commit")
    /\ LET o == [obs[w] EXCEPT !.dbCalls = @ + 1]
       IN IF \E u \in store : u.email = loc[w].email
          THEN /\ Finish(w, ServerError("Failed to create user"), o, hist, FALSE)
               /\ UNCHANGED <<store, nextId, loc>>
          ELSE /\ store' = store \cup {[id |-> nextId, name |-> loc[w].name,
                                        email |-> loc[w].email, created_at |-> now]}
               /\ nextId' = nextId + 1
               /\ loc' = [loc EXCEPT ![w].id = nextId]
               /\ Step(w, "invalidate", [o EXCEPT !.wrote = hist.ver + 1],
                       [hist EXCEPT !.ver = @ + 1], TRUE)
    /\ UNCHANGED <<now, config, cache, win, req, focus, nreq, nread, boot>>

\* create_user after the commit: guarded cache delete, update_user_count,
\* and the reload of the expired row for the log line and the answer
create_user_invalidate(w) ==
    /\ At(w, "create_user", "invalidate")
    /\ \E fault \in BOOLEAN :
         LET called == config.redis_client
             o == [obs[w] EXCEPT !.cacheCalls = IF called THEN @ + 1 ELSE @,
                                 !.dbCalls = @ + 2,
                                 !.purged = ~fault,
                                 !.faulted = fault]
         IN /\ fault => called /\ hist.faults < MaxFaults
            /\ cache' = IF called /\ ~fault THEN NoEntry ELSE cache
            /\ IF \E u \in store : u.id = loc[w].id
               THEN Finish(w, Resp(201, "user",
                        <<to_dict(CHOOSE u \in store : u.id = loc[w].id)>>, "", ""),
                        o, Faulted(hist, fault), TRUE)
               ELSE Finish(w, ServerError("Failed to create user"), o, Faulted(hist, fault), TRUE)
    /\ UNCHANGED <<now, config, store, nextId, win, req, loc, focus, nreq, nread, boot>>

\* update_user up to the assignments to the loaded row
update_user_load(w) ==
    /\ At(w, "update_user", "view")
    /\ LET data == req[w].body
           o == [obs[w] EXCEPT !.dbCalls = @ + 1]
       IN IF req[w].id <= 0
          THEN Finish(w, BadRequest("Invalid user ID"), obs[w], hist, FALSE)
               /\ UNCHANGED loc
          ELSE IF ~\E u \in store : u.id = req[w].id
          THEN Raised(w, "404 Not Found", o, hist, FALSE) /\ UNCHANGED loc
          ELSE IF Falsy(data)
          THEN Finish(w, BadRequest("No data provided"), o, hist, FALSE) /\ UNCHANGED loc
          ELSE IF data.name # None /\ ~validate_name(data.name)
          THEN Finish(w, BadRequest("Invalid name format"), o, hist, FALSE)
               /\ UNCHANGED loc
          ELSE IF data.email # None /\ ~validate_email(data.email)
          THEN Finish(w, BadRequest("Invalid email format"), o, hist, FALSE)
               /\ UNCHANGED loc
          ELSE LET u == CHOOSE x \in store : x.id = req[w].id
               IN /\ loc' = [loc EXCEPT ![w] =
                        [id |-> u.id, old_name |-> u.name, old_email |-> u.email,
                         name |-> IF data.name # None
                                  THEN sanitize_input(data.name) ELSE u.name,
                         email |-> IF data.email # None
                                   THEN Strip(Lower(data.email)) ELSE u.email,
                         data |-> <<>>, ver |-> 0]]
                  /\ Step(w, "commit", o, hist, FALSE)
    /\ UNCHANGED <<now, config, store, nextId, cache, win, req, focus, nreq, nread, boot>>

\* an UPDATE that carries no WHERE clause and reaches every row
RowMatchesAny(u, l) == TRUE

\* the flush of the loaded user: UPDATE users SET ... WHERE users.id = :id
RowMatches(u, l) == u.id = l.id

\* update_user, db.session.commit(): UPDATE of the changed columns by id
update_user_commit(w) ==
    /\ At(w, "update_user", "commit")
    /\ LET l == loc[w]
           dirty == l.name # l.old_name \/ l.email # l.old_email
           o == [obs[w] EXCEPT !.dbCalls = IF dirty THEN @ + 1 ELSE @]
       IN IF ~dirty
          THEN Step(w, "invalidate", o, hist, FALSE) /\ UNCHANGED store
          ELSE IF ~\E u \in store : u.id = l.id
          THEN Finish(w, ServerError("Failed to update user"), o, hist, FALSE)
               /\ UNCHANGED store
          ELSE IF l.email # l.old_email /\ \E u \in store : u.id # l.id /\ u.email = l.email
          THEN Finish(w, ServerError("Failed to update user"), o, hist, FALSE)
               /\ UNCHANGED store
          ELSE /\ store' = {IF RowMatches(u, l)
                            THEN [u EXCEPT !.name = IF l.name # l.old_name THEN l.name ELSE @,
                                           !.email = IF l.email # l.old_email THEN l.email ELSE @]
                            ELSE u : u \in store}
               /\ Step(w, "invalidate", [o EXCEPT !.wrote = hist.ver + 1],
                       [hist EXCEPT !.ver = @ + 1], TRUE)
    /\ UNCHANGED <<now, config, nextId, cache, win, req, loc, focus, nreq, nread, boot>>

\* update_user after the commit: unguarded cache delete, then the reload of
\* the expired row for the log line and the answer
update_user_invalidate(w) ==
    /\ At(w, "update_user", "invalidate")
    /\ \E fault \in BOOLEAN :
         LET called == config.redis_client
             o == [obs[w] EXCEPT !.cacheCalls = IF called THEN @ + 1 ELSE @,
                                 !.purged = ~fault,
                                 !.faulted = fault]
         IN /\ fault => called /\ hist.faults < MaxFaults
            /\ cache' = IF called /\ ~fault THEN NoEntry ELSE cache
            /\ IF fault
               THEN Finish(w, ServerError("Failed to update user"), o, Faulted(hist, fault), TRUE)
               ELSE IF \E u \in store : u.id = loc[w].id
               THEN Finish(w, Resp(200, "user",
                        <<to_dict(CHOOSE u \in store : u.id = loc[w].id)>>, "", ""),
                        [o EXCEPT !.dbCalls = @ + 1], Faulted(hist, fault), TRUE)
               ELSE Finish(w, ServerError("Failed to update user"),
                        [o EXCEPT !.dbCalls = @ + 1], Faulted(hist, fault), TRUE)
    /\ UNCHANGED <<now, config, store, nextId, win, req, loc, focus, nreq, nread, boot>>

\* delete_user up to get_or_404
delete_user_load(w) ==
    /\ At(w, "delete_user", "view")
    /\ LET o == [obs[w] EXCEPT !.dbCalls = @ + 1]
       IN IF req[w].id <= 0
          THEN Finish(w, BadRequest("Invalid user ID"), obs[w], hist, FALSE)
               /\ UNCHANGED loc
          ELSE IF ~\E u \in store : u.id = req[w].id
          THEN Raised(w, "404 Not Found", o, hist, FALSE) /\ UNCHANGED loc
          ELSE /\ loc' = [loc EXCEPT ![w].id = req[w].id]
               /\ Step(w, "commit", o, hist, FALSE)
    /\ UNCHANGED <<now, config, store, nextId, cache, win, req, focus, nreq, nread, boot>>

\* delete_user, db.session.delete(user) and commit
delete_user_commit(w) ==
    /\ At(w, "delete_user", "commit")
    /\ store' = {u \in store : u.id # loc[w].id}
    /\ Step(w, "invalidate",
            [obs[w] EXCEPT !.dbCalls = @ + 1, !.wrote = hist.ver + 1],
            [hist EXCEPT !.ver = @ + 1], TRUE)
    /\ UNCHANGED <<now, config, nextId, cache, win, req, loc, focus, nreq, nread, boot>>

\* delete_user after the commit: unguarded cache delete, update_user_count
delete_user_invalidate(w) ==
    /\ At(w, "delete_user", "invalidate")
    /\ \E fault \in BOOLEAN :
         LET called == config.redis_client
             o == [obs[w] EXCEPT !.cacheCalls = IF called THEN @ + 1 ELSE @,
                                 !.purged = ~fault,
                                 !.faulted = fault]
         IN /\ fault => called /\ hist.faults < MaxFaults
            /\ cache' = IF called /\ ~fault THEN NoEntry ELSE cache
            /\ IF fault
               THEN Finish(w, ServerError("Failed to delete user"), o, Faulted(hist, fault), TRUE)
               ELSE Finish(w, Resp(204, "empty", <<>>, "", ""),
                           [o EXCEPT !.dbCalls = @ + 1], Faulted(hist, fault), TRUE)
    /\ UNCHANGED <<now, config, store, nextId, win, req, loc, focus, nreq, nread, boot>>

(* ------------------------------ startup ------------------------------- *)

\* the process has been started: __main__ enters wait_for_db; the database
\* is reachable or not
InitStart ==
    /\ Idle
    /\ focus = NoFocus
    /\ boot \in {[phase |-> "wait_for_db", up |-> u, retry_count |-> 0,
                  attempts |-> 0, result |-> "none", tables |-> FALSE] : u \in BOOLEAN}

\* a loop that takes one turn too many
LoopGoesOnOnceMore(retry_count) == retry_count <= max_retries

\* while retry_count < max_retries
LoopGoesOn(retry_count) == retry_count < max_retries

\* wait_for_db, one turn of the loop: SELECT 1 succeeds and the function
\* returns True, or it raises and the failure is counted; the loop left, the
\* function returns False. __main__ ignores the value.
wait_for_db ==
    /\ boot.phase = "wait_for_db"
    /\ boot' = IF ~LoopGoesOn(boot.retry_count)
               THEN [boot EXCEPT !.result = "False", !.phase = "create_all"]
               ELSE IF boot.up
               THEN [boot EXCEPT !.attempts = @ + 1, !.result = "True",
                                 !.phase = "create_all"]
               ELSE [boot EXCEPT !.attempts = @ + 1, !.retry_count = @ + 1,
                                 !.phase = "sleep"]
    /\ UNCHANGED <<now, config, store, nextId, cache, win, pc, req, loc, resp, obs,
                   hist, focus, nreq, nread>>

\* wait_for_db, time.sleep(1)
wait_for_db_sleep ==
    /\ boot.phase = "sleep"
    /\ boot' = [boot EXCEPT !.phase = "wait_for_db"]
    /\ now' = now + 1
    /\ UNCHANGED <<config, store, nextId, cache, win, pc, req, loc, resp, obs,
                   hist, focus, nreq, nread>>

\* __main__ after wait_for_db: db.create_all() raises when the database is
\* unreachable and ends the process; else the tables exist,
\* update_user_count swallows its own failure, and app.run serves
main ==
    /\ boot.phase = "create_all"
    /\ boot' = IF boot.up
               THEN [boot EXCEPT !.tables = TRUE, !.phase = "run"]
               ELSE [boot EXCEPT !.phase = "failed"]
    /\ UNCHANGED <<now, config, store, nextId, cache, win, pc, req, loc, resp, obs,
                   hist, focus, nreq, nread>>

\* the database becomes reachable or unreachable while the process starts
db_changes ==
    /\ boot.phase \in {"wait_for_db", "sleep", "create_all"}
    /\ boot' = [boot EXCEPT !.up = ~@]
    /\ UNCHANGED <<now, config, store, nextId, cache, win, pc, req, loc, resp, obs,
                   hist, focus, nreq, nread>>

(* --------------------------- specifications --------------------------- *)

\* a client sends one of the requests on single users
StartCrud ==
    /\ nreq < MaxRequests
    /\ nreq' = nreq + 1
    /\ UNCHANGED nread
    /\ \E w \in Workers, r \in CrudRequests : Begin(w, r)

\* a client sends a list-read
StartRead ==
    /\ nread < MaxReads
    /\ nread' = nread + 1
    /\ UNCHANGED nreq
    /\ \E w \in Workers : Begin(w, ListRead)

\* a client sends a write
StartWrite ==
    /\ nreq < MaxWrites
    /\ nreq' = nreq + 1
    /\ UNCHANGED nread
    /\ \E w \in Workers, r \in WriteRequests : Begin(w, r)

\* the loading client sends its next request
StartLoad ==
    /\ UNCHANGED <<nreq, nread>>
    /\ \E w \in Workers, r \in Requests : MayLoad(r) /\ Begin(w, r)

\* the loading client sends its next request within its per-minute limit
StartHour ==
    /\ nreq' = nreq + 1
    /\ UNCHANGED nread
    /\ \E w \in Workers, r \in Requests :
         /\ Endpoint(r) = focus.endpoint
         /\ r.client = focus.client
         /\ r.id = 1
         /\ \A v \in Workers : pc[v] = "idle"
         /\ LET cur == win[<<r.client, focus.endpoint, Minute>>]
            IN cur.exp > now => cur.count < RouteLimits[focus.endpoint]
         /\ Begin(w, r)

\* the loading client has used up its minute and waits for the next one
NextMinute ==
    /\ now + Minute < Hour
    /\ \A v \in Workers : pc[v] = "idle"
    /\ LET cur == win[<<focus.client, focus.endpoint, Minute>>]
       IN cur.exp > now /\ cur.count = RouteLimits[focus.endpoint]
    /\ now' = now + Minute
    /\ cache' = IF cache.live /\ cache.exp <= now + Minute THEN NoEntry ELSE cache
    /\ win' = [k \in WinKeys |-> IF win[k].exp <= now + Minute THEN NoWindow ELSE win[k]]
    /\ hist' = [hist EXCEPT
          !.last = IF @.valid /\ @.exp <= now + Minute THEN NoLast ELSE @]
    /\ UNCHANGED <<config, store, nextId, pc, req, loc, resp, obs, focus, nreq, nread, boot>>

Writes ==
    \/ \E w \in Workers : create_user_validate(w)
    \/ \E w \in Workers : create_user_commit(w)
    \/ \E w \in Workers : create_user_invalidate(w)
    \/ \E w \in Workers : update_user_load(w)
    \/ \E w \in Workers : update_user_commit(w)
    \/ \E w \in Workers : update_user_invalidate(w)
    \/ \E w \in Workers : delete_user_load(w)
    \/ \E w \in Workers : delete_user_commit(w)
    \/ \E w \in Workers : delete_user_invalidate(w)

ListReads ==
    \/ \E w \in Workers : get_users_lookup(w)
    \/ \E w \in Workers : get_users_query(w)
    \/ \E w \in Workers : get_users_fill(w)

Next ==
    \/ StartCrud
    \/ \E w \in Workers : get_user(w)
    \/ Writes
    \/ \E w \in Workers : Return(w)

NextCache ==
    \/ StartRead
    \/ StartWrite
    \/ ListReads
    \/ Writes
    \/ \E w \in Workers : Return(w)
    \/ \E d \in TickSteps : Tick(d)

NextRate ==
    \/ StartLoad
    \/ \E w \in Workers : health(w)
    \/ \E w \in Workers : metrics(w)
    \/ \E w \in Workers : get_user(w)
    \/ ListReads
    \/ Writes
    \/ \E w \in Workers : Return(w)
    \/ \E d \in TickSteps : Tick(d)

NextHour ==
    \/ StartHour
    \/ \E w \in Workers : get_user(w)
    \/ \E w \in Workers : Return(w)
    \/ NextMinute

NextStart ==
    \/ wait_for_db
    \/ wait_for_db_sleep
    \/ main
    \/ db_changes

\* concurrent requests on single users
Spec == Init /\ [][Next]_vars

\* concurrent list-reads and writes, with time passing
SpecCache == Init /\ [][NextCache]_vars

\* one client loading one endpoint until its limits are exhausted
SpecRate == InitRate /\ [][NextRate]_vars

\* one client reading one user at full rate for an hour
SpecHour == InitHour /\ [][NextHour]_vars

\* the start of the process; its own steps are taken, whatever the database
\* does
SpecStart ==
    /\ InitStart
    /\ [][NextStart]_vars
    /\ WF_vars(wait_for_db)
    /\ WF_vars(wait_for_db_sleep)
    /\ WF_vars(main)

(* ----------------------------- properties ----------------------------- *)

Done(w) == pc[w] = "done"
Ids(rows) == {u.id : u \in rows}

\* C1: on a route with a per-route tier, a request is answered 429 exactly
\* when it is beyond the first limit(t) requests of its client in the current
\* one-minute window (nth is its number in that window): the request after
\* the limit is rejected with 429, and after the window has elapsed the count
\* starts again and requests are admitted.
C1_TierRejectsWith429 ==
    \A w \in Workers :
        Done(w) /\ Endpoint(req[w]) \in DOMAIN RouteLimits
        => (obs[w].nth > RouteLimits[Endpoint(req[w])] <=> resp[w].status = 429)

\* C2: GET /health and GET /metrics are never answered 429, whatever number
\* of requests one client has sent in a window.
C2_HealthMetricsNeverLimited ==
    \A w \in Workers :
        Done(w) /\ Endpoint(req[w]) \in {"health", "metrics"}
        => resp[w].status # 429

\* C3: with the cache backend available, a list-read that follows a completed
\* list-read, looks the cache up before that read's entry expires, and has no
\* write step and no cache fault between the two or during itself, answers
\* source "cache" with the data of the first read.
C3_SecondReadFromCache ==
    \A w \in Workers :
        /\ Done(w)
        /\ Endpoint(req[w]) = "get_users"
        /\ obs[w].stage = "view"
        /\ config.redis_client
        /\ obs[w].prior.valid
        /\ obs[w].clean
        /\ obs[w].lookupAt < obs[w].prior.exp
        => /\ resp[w].source = "cache"
           /\ resp[w].data = obs[w].prior.data

\* C4: a list-read that starts after a successful write has returned, with no
\* other request in flight from its start to its end, answers source
\* "database" with the users table as the write left it.
C4_ReadAfterWriteFromDatabase ==
    \A w \in Workers :
        /\ Done(w)
        /\ Endpoint(req[w]) = "get_users"
        /\ obs[w].stage = "view"
        /\ obs[w].afterWrite
        /\ obs[w].alone
        => /\ resp[w].source = "database"
           /\ resp[w].data = users_data_of(store)

\* C5: under every interleaving of list-reads and writes, a list-read that
\* starts after the response of a write (whose cache invalidation was carried
\* out) returns data at least as new as that write: no reader stores a
\* snapshot older than the write in the cache after the invalidation.
C5_ReadNeverOmitsReturnedWrite ==
    \A w \in Workers :
        Done(w) /\ Endpoint(req[w]) = "get_users" /\ obs[w].stage = "view"
        => obs[w].got >= obs[w].need

\* C6: a create with a valid name and a valid email that equals, ignoring
\* letter case, the email of a stored user is answered 409 and leaves the
\* users table as it was (no other request wrote meanwhile).
C6_DuplicateEmailConflict ==
    \A w \in Workers :
        /\ Done(w)
        /\ Endpoint(req[w]) = "create_user"
        /\ obs[w].stage = "view"
        /\ obs[w].clean
        /\ req[w].body.json
        /\ req[w].body.name # None
        /\ req[w].body.email # None
        /\ validate_name(req[w].body.name)
        /\ validate_email(req[w].body.email)
        /\ \E u \in obs[w].pre : Lower(u.email) = Lower(req[w].body.email)
        => /\ resp[w].status = 409
           /\ store = obs[w].pre

\* C7: GET, PUT or DELETE /users/{id} with a positive id that is not in the
\* users table is answered 404 and leaves the table and the cache as they
\* were (no other request wrote meanwhile).
C7_AbsentIdNotFound ==
    \A w \in Workers :
        /\ Done(w)
        /\ Endpoint(req[w]) \in {"get_user", "update_user", "delete_user"}
        /\ obs[w].stage = "view"
        /\ obs[w].clean
        /\ req[w].id > 0
        /\ req[w].id \notin Ids(obs[w].pre)
        => /\ resp[w].status = 404
           /\ store = obs[w].pre
           /\ cache = obs[w].preCache

\* C8: GET /users/0 and GET /users/-1 are answered 400 and make no call to
\* the database.
C8_NonPositiveIdInvalid ==
    \A w \in Workers :
        /\ Done(w)
        /\ req[w].method = "GET"
        /\ req[w].res = "users"
        /\ req[w].id \in {0, -1}
        => /\ resp[w].status = 400
           /\ obs[w].dbCalls = 0

\* C9: a request in which the scanner found a signature is not answered by
\* the scanner: it goes on to the limiter, the router and the view, and its
\* response is the one they produce.
C9_ScannerObservesOnly ==
    \A w \in Workers :
        pc[w] # "idle" /\ obs[w].events.suspicious_pattern > 0
        => /\ obs[w].stage \in {"limiter", "router", "view"}
           /\ security_logging_of(req[w]).rv = NoResp

\* C9, witness: a create whose name carries the signature ' has been scanned,
\* logged and answered 201 by the view
C9_ScannedRequestServed ==
    \E w \in Workers :
        /\ Done(w)
        /\ Endpoint(req[w]) = "create_user"
        /\ Contains(req[w].body.name, <<"'">>)
        /\ obs[w].events.suspicious_pattern > 0
        /\ obs[w].stage = "view"
        /\ resp[w].status = 201

\* C10: every finished request to /users or /users/{id} has incremented the
\* request counter exactly once, under the status it is answered with, and
\* the error counter exactly once if that status is 400 or more, not at all
\* otherwise.
C10_CountedOnceWithStatus ==
    \A w \in Workers :
        Done(w) /\ req[w].res = "users"
        => /\ obs[w].counted = <<resp[w].status>>
           /\ obs[w].errors = IF resp[w].status >= 400 THEN <<resp[w].status>> ELSE <<>>

\* C12: if wait_for_db returned False (the database was unreachable at each
\* of the capped attempts), the process creates no tables and never reaches
\* app.run.
C12_NoServiceWithoutDatabase ==
    boot.result = "False" => ~boot.tables /\ boot.phase # "run"

\* C18: wait_for_db makes at most 30 attempts (max_retries) and goes on only
\* after failures; it returns True at its first successful attempt, False
\* after the 30th failure in a row; and it always returns.
C18_WaitForDbTerminates ==
    /\ [](/\ boot.attempts <= 30
          /\ boot.result = "none" => boot.attempts = boot.retry_count
          /\ boot.result = "True" => boot.attempts = boot.retry_count + 1
          /\ boot.result = "False" => boot.attempts = 30 /\ boot.retry_count = 30)
    /\ <>(boot.result # "none")

\* C18, witness: wait_for_db has returned False after 30 failed attempts
C18_GaveUpAfterCap ==
    boot.result = "False" /\ boot.attempts = 30 /\ boot.phase = "create_all"

\* C11: a request that met a fault of the cache store (a get, setex or delete
\* that raised), or that ran without a cache client, is not failed by it: a
\* list-read answers 200 with source "database", and a create, update or
\* delete whose row change is in the table answers 201, 200 or 204.
C11_CacheFaultNeverFails ==
    \A w \in Workers :
        /\ Done(w)
        /\ obs[w].stage = "view"
        /\ obs[w].faulted \/ ~config.redis_client
        => /\ Endpoint(req[w]) = "get_users"
              => resp[w].status = 200 /\ resp[w].source = "database"
           /\ Endpoint(req[w]) \in {"create_user", "update_user", "delete_user"}
                /\ obs[w].wrote > 0
              => resp[w].status \in {200, 201, 204}

\* C13: a create (with name and email given) or an update (of a stored user)
\* whose name fails validate_name, or whose name passes or is not given and
\* whose email fails validate_email, is answered 400, emits exactly one
\* security event, invalid_input for the name or invalid_email for the email,
\* and makes no call to the database.
C13_ValidationFailureEvent ==
    \A w \in Workers :
        LET b == req[w].body
            create == Endpoint(req[w]) = "create_user"
            badName == b.name # None /\ ~validate_name(b.name)
            badEmail == ~badName /\ b.email # None /\ ~validate_email(b.email)
        IN /\ Done(w)
           /\ Endpoint(req[w]) \in {"create_user", "update_user"}
           /\ obs[w].stage = "view"
           /\ b.json
           /\ create => b.name # None /\ b.email # None
           /\ ~create => req[w].id \in Ids(obs[w].pre) /\ obs[w].clean
           /\ badName \/ badEmail
           => /\ resp[w].status = 400
              /\ obs[w].events.invalid_input = (IF badName THEN 1 ELSE 0)
              /\ obs[w].events.invalid_email = (IF badEmail THEN 1 ELSE 0)
              /\ obs[w].dbCalls = 0

\* C14: the default hourly tier applies to a decorated route as well: a
\* request that is within its route's per-minute limit but is beyond the
\* first 1000 requests its client has sent to the route in the current hour
\* (nreq counts the requests of a run that started at time 0) is answered 429.
C14_DefaultHourlyTierApplies ==
    \A w \in Workers :
        /\ Done(w)
        /\ Endpoint(req[w]) \in DOMAIN RouteLimits
        /\ obs[w].nth <= RouteLimits[Endpoint(req[w])]
        /\ now < Hour
        /\ nreq > DefaultLimits[2].amount
        => resp[w].status = 429

\* the request's content holds at least one of the scanner's signatures
HasSignature(r) ==
    \E k \in 1..Len(suspicious_patterns) :
        Contains(Lower(request_data(r)), Lower(suspicious_patterns[k]))

\* C15: the scanner runs before the limiter: a request answered 429 whose
\* content holds a signature has emitted its suspicious_pattern event.
C15_ScannedBeforeLimited ==
    \A w \in Workers :
        Done(w) /\ resp[w].status = 429 /\ HasSignature(req[w])
        => obs[w].events.suspicious_pattern >= 1

\* C16: a request the scanner has seen has emitted exactly one
\* suspicious_pattern event if its content holds at least one signature,
\* however many, and none otherwise.
C16_OneEventPerRequest ==
    \A w \in Workers :
        pc[w] # "idle" /\ obs[w].stage \in {"router", "view"}
        => obs[w].events.suspicious_pattern = (IF HasSignature(req[w]) THEN 1 ELSE 0)

\* C17: a request the rate limiter rejected is answered 429, has emitted
\* exactly one rate_limit_exceeded event, and has made no call to the
\* database or to the cache store.
C17_LimiterRejectionIs429 ==
    \A w \in Workers :
        Done(w) /\ obs[w].stage = "limiter"
        => /\ resp[w].status = 429
           /\ obs[w].events.rate_limit_exceeded = 1
           /\ obs[w].dbCalls = 0
           /\ obs[w].cacheCalls = 0

\* C19: in every state, no stored email holds an upper-case letter and no two
\* stored users have the same email.
C19_EmailsNormalisedAndUnique ==
    /\ \A u \in store : \A i \in 1..Len(u.email) :
          u.email[i] \notin {UpperCase[k] : k \in 1..Len(UpperCase)}
    /\ \A u, v \in store : u.email = v.email => u = v

\* C19, witness: a create sent with the email A@b.co has returned 201 and
\* the table holds its row with a@b.co
C19_UpperCaseEmailStoredLower ==
    \E w \in Workers :
        /\ Done(w)
        /\ Endpoint(req[w]) = "create_user"
        /\ req[w].body.email = EmailAUpper
        /\ resp[w].status = 201
        /\ \E u \in store : u.id = loc[w].id /\ u.email = EmailA

\* C20: a list-read that ran its handler has incremented exactly one of the
\* cache-hit and cache-miss counters, once; its source is "cache" exactly
\* when it was the hit counter and "database" exactly when it was the miss
\* counter; a read that met a cache fault has counted a miss.
C20_HitOrMissCounted ==
    \A w \in Workers :
        Done(w) /\ Endpoint(req[w]) = "get_users" /\ obs[w].stage = "view"
        => /\ obs[w].hits + obs[w].misses = 1
           /\ resp[w].source = "cache" <=> obs[w].hits = 1
           /\ resp[w].source = "database" <=> obs[w].misses = 1
           /\ obs[w].faulted => obs[w].misses = 1

\* C20, witness: a list-read whose cache lookup raised has answered from the
\* database and counted a miss
C20_FaultCountedAsMiss ==
    \E w \in Workers :
        /\ Done(w)
        /\ Endpoint(req[w]) = "get_users"
        /\ obs[w].faulted
        /\ obs[w].cacheCalls = 2
        /\ obs[w].misses = 1
        /\ resp[w].source = "database"

\* C21: a successful PUT /users/{id} that no other write overlapped leaves
\* every other user of the collection as it was, keeps the identifier and the
\* creation timestamp of the updated user, keeps each of name and email that
\* the body did not supply, and stores the supplied ones as the handler
\* computes them.
C21_UpdateChangesOnlySupplied ==
    \A w \in Workers :
        (/\ Done(w)
         /\ Endpoint(req[w]) = "update_user"
         /\ resp[w].status = 200
         /\ obs[w].clean)
        => /\ Ids(store) = Ids(obs[w].pre)
           /\ \A p \in obs[w].pre :
                 \E u \in store :
                    /\ u.id = p.id
                    /\ u.created_at = p.created_at
                    /\ p.id # req[w].id => u = p
                    /\ p.id = req[w].id =>
                         /\ u.name = IF req[w].body.name = None
                                      THEN p.name
                                      ELSE sanitize_input(req[w].body.name)
                         /\ u.email = IF req[w].body.email = None
                                       THEN p.email
                                       ELSE Strip(Lower(req[w].body.email))

\* a successful update of the name alone, with a second user in the collection:
\* the name changed and the email stayed
C21_PartialUpdateApplied ==
    \E w \in Workers :
        /\ Done(w)
        /\ Endpoint(req[w]) = "update_user"
        /\ resp[w].status = 200
        /\ obs[w].clean
        /\ req[w].body.name # None
        /\ req[w].body.email = None
        /\ Cardinality(store) >= 2
        /\ \E p \in obs[w].pre, u \in store :
              /\ p.id = req[w].id /\ u.id = p.id
              /\ u.name # p.name /\ u.email = p.email

\* C22: a create, update or delete request that is answered with a 4xx or 5xx
\* status, and that no other write overlapped, leaves the stored collection
\* exactly as it was when the request arrived.
C22_FailedWriteLeavesStore ==
    \A w \in Workers :
        (/\ Done(w)
         /\ Endpoint(req[w]) \in {"create_user", "update_user", "delete_user"}
         /\ resp[w].status >= 400
         /\ obs[w].clean)
        => store = obs[w].pre

\* C23: a list-read answered with source "cache" looked the cache up less
\* than 60 seconds after the entry it serves was stored; and a list-read that
\* arrives with an entry in the cache, runs with no other request in flight
\* and looks the cache up 60 seconds or more after that entry was stored
\* answers source "database".
C23_CacheServedWithinTTL ==
    \A w \in Workers :
        (/\ Done(w)
         /\ Endpoint(req[w]) = "get_users"
         /\ obs[w].stage = "view"
         /\ resp[w].status = 200)
        => /\ resp[w].source = "cache" =>
                /\ obs[w].storedAt <= obs[w].lookupAt
                /\ obs[w].lookupAt - obs[w].storedAt < CacheTTL
           /\ (obs[w].preCache.live
               /\ obs[w].lookupAt - obs[w].preCache.at >= CacheTTL
               /\ obs[w].alone)
              => resp[w].source = "database"

\* a list-read that arrives with an entry in the cache, looks it up when the
\* 60 seconds since that entry's fill have passed, and is answered from the
\* database
C23_ExpiredEntryNotServed ==
    \E w \in Workers :
        /\ Done(w)
        /\ Endpoint(req[w]) = "get_users"
        /\ resp[w].status = 200
        /\ resp[w].source = "database"
        /\ ~obs[w].faulted
        /\ config.redis_client
        /\ obs[w].preCache.live
        /\ obs[w].lookupAt - obs[w].preCache.at >= CacheTTL

====
